---- MODULE Spec2Model ----
(***************************************************************************)
(* Model of src/app.js: a page script with three slices (quote widget,     *)
(* task list, notes editor) driven by DOM events and REST responses.       *)
(* Every async handler is cut at its awaits: the part before the first     *)
(* await is the action of the DOM event, the part after an await is the    *)
(* action of the request's completion.  A request in flight (phase "req") *)
(* is either answered by the server (phase "ok", or "bad" for a body of    *)
(* the wrong shape) and then delivered to the awaiting handler, or it      *)
(* fails and the awaiting handler sees a rejection.  Requests complete in  *)
(* any order.                                                              *)
(***************************************************************************)
EXTENDS Integers, Sequences, FiniteSets, TLC

(* ------------------------------ bounds -------------------------------- *)
MaxTasks == 2
MaxTaskReqs == 2
MaxNotesReqs == 2
MaxQuoteReqs == 1

(* ------------------------------ values -------------------------------- *)
\* a response field that is undefined or null (also: response.data missing)
NoField == "<undefined>"

NoteVals == {"", "a", "b"}

\* the code units String.prototype.trim strips: TAB, LF, VT, FF, CR, SP,
\* NBSP, the other Unicode space separators, LS, PS and U+FEFF
WhiteSpace ==
  {9, 10, 11, 12, 13, 32, 160, 5760} \cup (8192..8202)
    \cup {8232, 8233, 8239, 8287, 12288, 65279}

\* the new-task input's value is a sequence of UTF-16 code units
\* (97 is "a")
InputVals == {<<>>, <<32, 9, 160>>, <<10, 97, 32>>}

AllIds == {"quote-text", "quote-author", "quote-category-select",
           "new-quote-btn", "task-list", "new-task", "add-task-btn",
           "submit-new-task", "notes-text", "save-notes-btn"}

\* the pages the script is loaded into: the full markup, and markup that
\* lacks one of the quote display elements
DomConfigs == {AllIds, AllIds \ {"quote-text"}, AllIds \ {"quote-author"}}

InitialTasks ==
  { <<>>,
    <<[id |-> 1, task |-> <<97>>, finished |-> 0]>>,
    <<[id |-> 1, task |-> <<97>>, finished |-> 0],
      [id |-> 2, task |-> <<97>>, finished |-> 1]>> }

\* bodies of GET /quotes responses; NoField stands for an absent field
QuoteBodies ==
  { [quote |-> "Q", text |-> NoField, author |-> "A", name |-> NoField],
    [quote |-> NoField, text |-> "T", author |-> NoField, name |-> "N"],
    [quote |-> "Q", text |-> "T", author |-> "A", name |-> "N"],
    [quote |-> NoField, text |-> NoField, author |-> NoField, name |-> NoField],
    [quote |-> NoField, text |-> "Be kind.", author |-> NoField, name |-> "Anon"],
    [quote |-> "", text |-> "T", author |-> "", name |-> "N"] }

\* values of the category select; "" is an option without a value
SelectVals == {"", "life"}

NoBody == [quote |-> NoField, text |-> NoField, author |-> NoField, name |-> NoField]

VARIABLES
  dom,            \* ids of the elements present in the document
  initPc,         \* position of init(): "quote", "tasks", "notes", "done", "rejected"
  quoteTextEl,    \* textContent of #quote-text
  quoteAuthorEl,  \* textContent of #quote-author
  quoteReqs,      \* GET /quotes requests in flight
  serverTasks,    \* the task list held by the server
  rendered,       \* rows of .task-list: [id, task, checked]
  inputEl,        \* value of #new-task
  addDisabled,    \* disabled flag of #add-task-btn
  taskReqs,       \* /tasks requests in flight
  serverNotes,    \* the notes blob held by the server
  textarea,       \* value of #notes-text
  lastSavedNotes, \* module variable lastSavedNotes
  saveDisabled,   \* disabled flag of #save-notes-btn
  notesReqs,      \* /notes requests in flight
  last            \* history: the handler step that ran last

quoteVars == <<quoteTextEl, quoteAuthorEl, quoteReqs>>
taskVars == <<serverTasks, rendered, inputEl, addDisabled, taskReqs>>
notesVars == <<serverNotes, textarea, lastSavedNotes, saveDisabled, notesReqs>>
vars == <<dom, initPc, quoteVars, taskVars, notesVars, last>>

(* ------------------------------ helpers ------------------------------- *)
Has(id) == id \in dom

RemoveAt(s, k) == [i \in 1..(Len(s) - 1) |-> IF i < k THEN s[i] ELSE s[i + 1]]

\* a history record: the handler step that ran, and what it ran with
Step(op, arg) == [op |-> op, arg |-> arg]

\* wireTaskEvents() and wireNotesEvents() have run
PartBWired == initPc \in {"tasks", "notes", "done"}

(* ============================ QUOTE SLICE ============================= *)
Fallback == "Oops... could not load quote."

\* a ?? b
Coalesce(a, b) == IF a # NoField THEN a ELSE b

\* the text field consulted before the quote field
quoteTextOf_textFirst(data) == Coalesce(data.text, Coalesce(data.quote, ""))

\* data.quote ?? data.text ?? ""
quoteTextOf(data) == Coalesce(data.quote, Coalesce(data.text, ""))

\* the author without the final default
quoteAuthorOf_noDefault(data) == Coalesce(data.author, data.name)

\* data.author ?? data.name ?? ""
quoteAuthorOf(data) == Coalesce(data.author, Coalesce(data.name, ""))

\* `"${quoteText}"`
Wrap(s) == "\"" \o s \o "\""

\* select.value || "general"
CategoryOf(value) == IF value = "" THEN "general" ELSE value

QuoteReq(from, category) ==
  [from |-> from, category |-> category, phase |-> "req", body |-> NoBody]

TaskReq(kind, from, id, finished, text) ==
  [kind |-> kind, from |-> from, id |-> id, finished |-> finished,
   text |-> text, phase |-> "req", data |-> <<>>]

NotesReq(kind, sent) == [kind |-> kind, sent |-> sent, phase |-> "req", data |-> NoField]

\* loadQuote's try block ran to its end without throwing
QuoteShown(r) == r.phase = "ok" /\ Has("quote-text") /\ Has("quote-author")

\* loadQuote's catch block throws in turn: the returned promise rejects
QuoteRejects(r) == ~QuoteShown(r) /\ ~(Has("quote-text") /\ Has("quote-author"))

\* select change / new-quote button click, up to the await
NewQuote(value) ==
  /\ Has("quote-category-select") \/ Has("new-quote-btn")
  /\ Len(quoteReqs) < MaxQuoteReqs
  /\ quoteReqs' = Append(quoteReqs, QuoteReq("user", CategoryOf(value)))
  /\ last' = Step("newQuote", CategoryOf(value))
  /\ UNCHANGED <<dom, initPc, quoteTextEl, quoteAuthorEl, taskVars, notesVars>>

\* the quote service answers GET /quotes with one of the given bodies, or
\* with no usable body at all
ServeQuote(k, bodies) ==
  /\ k \in DOMAIN quoteReqs
  /\ quoteReqs[k].phase = "req"
  /\ \/ \E b \in bodies :
          quoteReqs' = [quoteReqs EXCEPT ![k].phase = "ok", ![k].body = b]
     \/ quoteReqs' = [quoteReqs EXCEPT ![k].phase = "bad"]
  /\ UNCHANGED <<dom, initPc, quoteTextEl, quoteAuthorEl, taskVars, notesVars, last>>

\* loadQuote after its await (phase "req": the request failed); for init's
\* call, init() runs on to the await inside loadTasks
QuoteDone(k) ==
  /\ k \in DOMAIN quoteReqs
  /\ LET r == quoteReqs[k] IN
       /\ quoteReqs' = RemoveAt(quoteReqs, k)
       /\ quoteTextEl' =
            IF QuoteShown(r) THEN Wrap(quoteTextOf(r.body))
            ELSE IF Has("quote-text") THEN Fallback ELSE quoteTextEl
       /\ quoteAuthorEl' =
            IF QuoteShown(r) THEN quoteAuthorOf(r.body)
            ELSE IF Has("quote-text") /\ Has("quote-author") THEN ""
            ELSE quoteAuthorEl
       /\ last' = Step(IF QuoteShown(r) THEN "quoteOk"
                       ELSE IF QuoteRejects(r) THEN "quoteRejected"
                       ELSE "quoteFail", r.from)
       /\ IF r.from = "init"
          THEN IF QuoteRejects(r)
               THEN initPc' = "rejected" /\ UNCHANGED taskReqs
               ELSE /\ initPc' = "tasks"
                    /\ taskReqs' = Append(taskReqs, TaskReq("GET", "init", 0, 0, <<>>))
          ELSE UNCHANGED <<initPc, taskReqs>>
  /\ UNCHANGED <<dom, serverTasks, rendered, inputEl, addDisabled, notesVars>>

(* ============================ NOTES SLICE ============================= *)
\* fetchNotes without its default: the absent field is shown as it is
fetchNotes_noDefault(data) == data

\* response.data?.notes ?? ""
fetchNotes(data) == IF data = NoField THEN "" ELSE data

\* putNotes returning what was sent and not what the server echoed
putNotes_ignoresEcho(notesText, data) == notesText

\* response.data?.notes ?? notesText
putNotes(notesText, data) == IF data = NoField THEN notesText ELSE data

\* the disabled flag of the save button after setSaveNotesEnabled(enabled)
setSaveNotesEnabled(enabled) ==
  IF Has("save-notes-btn") THEN ~enabled ELSE saveDisabled

\* the user edits the textarea; the input listener exists once
\* wireNotesEvents has run
TypeNotes(v) ==
  /\ Has("notes-text")
  /\ textarea' = v
  /\ IF PartBWired
     THEN /\ saveDisabled' = setSaveNotesEnabled(v # lastSavedNotes)
          /\ last' = Step("input", "")
     ELSE /\ UNCHANGED saveDisabled
          /\ last' = Step("typedUnwired", "")
  /\ UNCHANGED <<dom, initPc, quoteVars, taskVars, serverNotes, lastSavedNotes, notesReqs>>

\* save button click, up to the await in putNotes
ClickSave ==
  /\ PartBWired
  /\ Has("save-notes-btn")
  /\ ~saveDisabled
  /\ Len(notesReqs) < MaxNotesReqs
  /\ LET currentText == IF Has("notes-text") THEN textarea ELSE "" IN
       /\ notesReqs' = Append(notesReqs, NotesReq("PUT", currentText))
       /\ last' = Step("saveClick", "")
  /\ UNCHANGED <<dom, initPc, quoteVars, taskVars, serverNotes, textarea,
                 lastSavedNotes, saveDisabled>>

\* the text the local service stores for a text it is sent: it keeps its
\* notes in a normal form, "a" being the normal form of "b"
Normalize(text) == IF text = "b" THEN "a" ELSE text

\* the local service answers GET /notes or PUT /notes; a PUT stores the
\* normalised text and echoes it, or omits the echo when it stored the
\* text as sent
ServeNotes(k) ==
  /\ k \in DOMAIN notesReqs
  /\ notesReqs[k].phase = "req"
  /\ LET r == notesReqs[k]
         stored == Normalize(r.sent) IN
       \/ /\ r.kind = "GET"
          /\ \E d \in {serverNotes, NoField} :
               notesReqs' = [notesReqs EXCEPT ![k].phase = "ok", ![k].data = d]
          /\ UNCHANGED serverNotes
       \/ /\ r.kind = "PUT"
          /\ serverNotes' = stored
          /\ \E d \in {stored} \cup (IF stored = r.sent THEN {NoField} ELSE {}) :
               notesReqs' = [notesReqs EXCEPT ![k].phase = "ok", ![k].data = d]
  /\ UNCHANGED <<dom, initPc, quoteVars, taskVars, textarea, lastSavedNotes,
                 saveDisabled, last>>

\* the save click handler with the button reset in a finally block
SaveDone_finally(k) ==
  /\ k \in DOMAIN notesReqs
  /\ notesReqs[k].kind = "PUT"
  /\ LET r == notesReqs[k] IN
       /\ notesReqs' = RemoveAt(notesReqs, k)
       /\ saveDisabled' = IF Has("save-notes-btn") THEN TRUE ELSE saveDisabled
       /\ IF r.phase = "ok"
          THEN /\ lastSavedNotes' = IF r.data = NoField THEN r.sent ELSE r.data
               /\ textarea' = IF Has("notes-text") THEN lastSavedNotes' ELSE textarea
               /\ last' = Step("saveOk", r.sent)
          ELSE /\ UNCHANGED <<lastSavedNotes, textarea>>
               /\ last' = Step("saveFail", "")
  /\ UNCHANGED <<dom, initPc, quoteVars, taskVars, serverNotes>>

\* the save click handler keeping text typed while the PUT was in flight
SaveDone_keepsEdits(k) ==
  /\ k \in DOMAIN notesReqs
  /\ notesReqs[k].kind = "PUT"
  /\ LET r == notesReqs[k]
         saved == putNotes(r.sent, r.data) IN
       /\ notesReqs' = RemoveAt(notesReqs, k)
       /\ IF r.phase = "ok"
          THEN /\ lastSavedNotes' = saved
               /\ textarea' = IF textarea = r.sent THEN saved ELSE textarea
               /\ saveDisabled' = setSaveNotesEnabled(textarea' # saved)
               /\ last' = Step("saveOk", r.sent)
          ELSE /\ UNCHANGED <<lastSavedNotes, textarea, saveDisabled>>
               /\ last' = Step("saveFail", "")
  /\ UNCHANGED <<dom, initPc, quoteVars, taskVars, serverNotes>>

\* save click handler after its await (phase "req": the PUT failed)
SaveDone(k) ==
  /\ k \in DOMAIN notesReqs
  /\ notesReqs[k].kind = "PUT"
  /\ LET r == notesReqs[k]
         saved == putNotes(r.sent, r.data) IN
       /\ notesReqs' = RemoveAt(notesReqs, k)
       /\ IF r.phase = "ok"
          THEN /\ lastSavedNotes' = saved
               /\ textarea' = IF Has("notes-text") THEN saved ELSE textarea
               /\ saveDisabled' = setSaveNotesEnabled(FALSE)
               /\ last' = Step("saveOk", r.sent)
          ELSE /\ UNCHANGED <<lastSavedNotes, textarea, saveDisabled>>
               /\ last' = Step("saveFail", "")
  /\ UNCHANGED <<dom, initPc, quoteVars, taskVars, serverNotes>>

\* loadNotes after its await (phase "req": the GET failed); init() then
\* returns
LoadNotesDone(k) ==
  /\ k \in DOMAIN notesReqs
  /\ notesReqs[k].kind = "GET"
  /\ LET r == notesReqs[k]
         notes == fetchNotes(r.data) IN
       /\ notesReqs' = RemoveAt(notesReqs, k)
       /\ IF r.phase = "ok"
          THEN /\ lastSavedNotes' = notes
               /\ textarea' = notes
               /\ saveDisabled' = setSaveNotesEnabled(FALSE)
               /\ last' = Step("loadNotesOk", r.data)
          ELSE /\ UNCHANGED <<lastSavedNotes, textarea, saveDisabled>>
               /\ last' = Step("loadNotesFail", "")
  /\ initPc' = "done"
  /\ UNCHANGED <<dom, quoteVars, taskVars, serverNotes>>

(* ============================ TASKS SLICE ============================= *)
IsSpace(c) == c \in WhiteSpace

RECURSIVE TrimStart(_)
TrimStart(s) == IF s # <<>> /\ IsSpace(Head(s)) THEN TrimStart(Tail(s)) ELSE s

RECURSIVE TrimEnd(_)
TrimEnd(s) ==
  IF s # <<>> /\ IsSpace(s[Len(s)]) THEN TrimEnd(SubSeq(s, 1, Len(s) - 1)) ELSE s

\* the raw value used where the trimmed one was meant
Trim_raw(s) == s

\* String.prototype.trim
Trim(s) == TrimEnd(TrimStart(s))

\* the old state of the box sent in place of the new one
newFinishedOf_old(checked) == IF checked THEN 0 ELSE 1

\* e.target.checked ? 1 : 0
newFinishedOf(checked) == IF checked THEN 1 ELSE 0

\* renderTaskList without listEl.innerHTML = "": rows pile up
renderTaskList_append(tasks) ==
  rendered \o [i \in DOMAIN tasks |->
                [id |-> tasks[i].id, task |-> tasks[i].task,
                 checked |-> tasks[i].finished = 1]]

\* the rows renderTaskList builds, one per task, in the order given
renderTaskList(tasks) ==
  [i \in DOMAIN tasks |->
     [id |-> tasks[i].id, task |-> tasks[i].task, checked |-> tasks[i].finished = 1]]

\* the user edits the new-task input
TypeInput(v) ==
  /\ Has("new-task")
  /\ v # inputEl
  /\ inputEl' = v
  /\ last' = Step("typeInput", "")
  /\ UNCHANGED <<dom, initPc, quoteVars, serverTasks, rendered, addDisabled,
                 taskReqs, notesVars>>

\* add-button click or form submit: handleAddTask up to its await
AddTask(src) ==
  /\ PartBWired
  /\ \/ src = "click" /\ Has("add-task-btn") /\ ~addDisabled
     \/ src = "submit" /\ Has("submit-new-task")
  /\ LET taskText == Trim(inputEl) IN
       IF ~Has("new-task") \/ Len(taskText) = 0
       THEN /\ last' = Step("addEmpty", "")
            /\ UNCHANGED <<addDisabled, taskReqs>>
       ELSE /\ Len(taskReqs) < MaxTaskReqs
            /\ addDisabled' = IF Has("add-task-btn") THEN TRUE ELSE addDisabled
            /\ taskReqs' = Append(taskReqs, TaskReq("POST", "add", 0, 0, taskText))
            /\ last' = Step("addPost", "")
  /\ UNCHANGED <<dom, initPc, quoteVars, serverTasks, rendered, inputEl, notesVars>>

\* the change handler calling loadTasks() without awaiting the PATCH
Toggle_noAwait(i) ==
  /\ i \in DOMAIN rendered
  /\ Len(taskReqs) < MaxTaskReqs
  /\ LET checked == ~rendered[i].checked IN
       /\ rendered' = [rendered EXCEPT ![i].checked = checked]
       /\ taskReqs' = taskReqs \o
            <<TaskReq("PATCH", "change", rendered[i].id, newFinishedOf(checked), <<>>),
              TaskReq("GET", "change", 0, 0, <<>>)>>
       /\ last' = Step("toggle", "")
  /\ UNCHANGED <<dom, initPc, quoteVars, serverTasks, inputEl, addDisabled, notesVars>>

\* the user flips checkbox i: the change handler up to its await
Toggle(i) ==
  /\ i \in DOMAIN rendered
  /\ Len(taskReqs) < MaxTaskReqs
  /\ LET checked == ~rendered[i].checked
         newFinished == newFinishedOf(checked) IN
       /\ rendered' = [rendered EXCEPT ![i].checked = checked]
       /\ taskReqs' = Append(taskReqs,
                             TaskReq("PATCH", "change", rendered[i].id, newFinished, <<>>))
       /\ last' = Step("toggle", "")
  /\ UNCHANGED <<dom, initPc, quoteVars, serverTasks, inputEl, addDisabled, notesVars>>

\* the local service answers a /tasks request
ServeTasks(k) ==
  /\ k \in DOMAIN taskReqs
  /\ taskReqs[k].phase = "req"
  /\ LET r == taskReqs[k] IN
       \/ /\ r.kind = "GET"
          /\ \/ taskReqs' = [taskReqs EXCEPT ![k].phase = "ok", ![k].data = serverTasks]
             \/ taskReqs' = [taskReqs EXCEPT ![k].phase = "bad"]
          /\ UNCHANGED serverTasks
       \/ /\ r.kind = "PATCH"
          /\ serverTasks' = [j \in DOMAIN serverTasks |->
                               IF serverTasks[j].id = r.id
                               THEN [serverTasks[j] EXCEPT !.finished = r.finished]
                               ELSE serverTasks[j]]
          /\ taskReqs' = [taskReqs EXCEPT ![k].phase = "ok"]
       \/ /\ r.kind = "POST"
          /\ Len(serverTasks) < MaxTasks
          /\ serverTasks' = Append(serverTasks,
                                   [id |-> Len(serverTasks) + 1, task |-> r.text,
                                    finished |-> 0])
          /\ taskReqs' = [taskReqs EXCEPT ![k].phase = "ok"]
  /\ UNCHANGED <<dom, initPc, quoteVars, rendered, inputEl, addDisabled, notesVars, last>>

\* the change handler after the await of patchTaskFinished (phase "req":
\* the PATCH failed): loadTasks() up to its await
PatchDone(k) ==
  /\ k \in DOMAIN taskReqs
  /\ taskReqs[k].kind = "PATCH"
  /\ LET r == taskReqs[k] IN
       /\ taskReqs' = Append(RemoveAt(taskReqs, k), TaskReq("GET", "change", 0, 0, <<>>))
       /\ last' = Step(IF r.phase = "ok" THEN "patchOk" ELSE "patchFail", "")
  /\ UNCHANGED <<dom, initPc, quoteVars, serverTasks, rendered, inputEl, addDisabled,
                 notesVars>>

\* the add button re-enabled in the try block and not in a finally block
handleAddTaskAfter_noFinally(r) ==
  [input |-> IF r.phase = "ok" THEN <<>> ELSE inputEl,
   disabled |-> IF Has("add-task-btn") /\ r.phase = "ok" THEN FALSE ELSE addDisabled]

\* what handleAddTask's try / catch / finally leaves in the input and in
\* the add button's disabled flag
handleAddTaskAfter(r) ==
  [input |-> IF r.phase = "ok" THEN <<>> ELSE inputEl,
   disabled |-> IF Has("add-task-btn") THEN FALSE ELSE addDisabled]

\* handleAddTask after the await of postNewTask (phase "req": the POST
\* failed): loadTasks() up to its await
PostDone(k) ==
  /\ k \in DOMAIN taskReqs
  /\ taskReqs[k].kind = "POST"
  /\ LET r == taskReqs[k] IN
       /\ inputEl' = handleAddTaskAfter(r).input
       /\ addDisabled' = handleAddTaskAfter(r).disabled
       /\ taskReqs' = Append(RemoveAt(taskReqs, k), TaskReq("GET", "add", 0, 0, <<>>))
       /\ last' = Step(IF r.phase = "ok" THEN "postOk" ELSE "postFail", "")
  /\ UNCHANGED <<dom, initPc, quoteVars, serverTasks, rendered, notesVars>>

\* loadTasks dropping a response while another request is pending
loadTasksRender_latestOnly(r) ==
  IF ~Has("task-list") \/ r.phase = "req" \/ Len(taskReqs) > 1 THEN rendered
  ELSE IF r.phase = "ok" THEN renderTaskList(r.data)
  ELSE <<>>

\* .task-list after loadTasks has received response r: renderTaskList
\* empties the list before it iterates, and is not reached on a rejection
loadTasksRender(r) ==
  IF ~Has("task-list") \/ r.phase = "req" THEN rendered
  ELSE IF r.phase = "ok" THEN renderTaskList(r.data)
  ELSE <<>>

\* loadTasks after its await (phase "req": the GET failed); for init's
\* call, init() runs on to the await inside loadNotes
LoadTasksDone(k) ==
  /\ k \in DOMAIN taskReqs
  /\ taskReqs[k].kind = "GET"
  /\ LET r == taskReqs[k] IN
       /\ taskReqs' = RemoveAt(taskReqs, k)
       /\ rendered' = loadTasksRender(r)
       /\ last' = Step(IF r.phase = "ok" THEN "loadTasksOk"
                       ELSE IF r.phase = "bad" THEN "loadTasksBad"
                       ELSE "loadTasksFail", r.from)
       /\ IF r.from = "init"
          THEN IF Has("notes-text")
               THEN /\ initPc' = "notes"
                    /\ notesReqs' = Append(notesReqs, NotesReq("GET", ""))
               ELSE initPc' = "done" /\ UNCHANGED notesReqs
          ELSE UNCHANGED <<initPc, notesReqs>>
  /\ UNCHANGED <<dom, quoteVars, serverTasks, inputEl, addDisabled, serverNotes,
                 textarea, lastSavedNotes, saveDisabled>>

(* ========================== SPECIFICATIONS ============================ *)
\* the state when init() reaches its first await: the quote listeners are
\* wired and the initial GET /quotes is in flight
Init ==
  /\ dom \in DomConfigs
  /\ initPc = "quote"
  /\ quoteTextEl = ""
  /\ quoteAuthorEl = ""
  /\ quoteReqs = <<QuoteReq("init", CategoryOf(""))>>
  /\ serverTasks \in InitialTasks
  /\ rendered = <<>>
  /\ inputEl = <<>>
  /\ addDisabled = FALSE
  /\ taskReqs = <<>>
  /\ serverNotes \in {Normalize(t) : t \in NoteVals}
  /\ textarea = ""
  /\ lastSavedNotes = ""
  /\ saveDisabled = TRUE
  /\ notesReqs = <<>>
  /\ last = Step("init", "")

\* the body the quote service sends while another slice is under study
StartupBodies == {[quote |-> "Q", text |-> NoField, author |-> "A", name |-> NoField]}

\* the notes editor, with the start-up sequence that leads to it, on a
\* server that holds no tasks
InitNotes == Init /\ serverTasks = <<>>

NextNotes ==
  \/ \E k \in 1..Len(quoteReqs) : ServeQuote(k, StartupBodies)
  \/ \E k \in 1..Len(quoteReqs) : QuoteDone(k)
  \/ \E k \in 1..Len(taskReqs) : ServeTasks(k)
  \/ \E k \in 1..Len(taskReqs) : LoadTasksDone(k)
  \/ \E k \in 1..Len(notesReqs) : ServeNotes(k)
  \/ \E k \in 1..Len(notesReqs) : LoadNotesDone(k)
  \/ \E v \in NoteVals : TypeNotes(v)
  \/ ClickSave
  \/ \E k \in 1..Len(notesReqs) : SaveDone(k)

SpecNotes == InitNotes /\ [][NextNotes]_vars

\* the task list, with the start-up sequence that leads to it, on a server
\* that holds empty notes; the two kinds of task mutation are explored apart
InitTasks == Init /\ serverNotes = ""

\* checkbox toggles and their reloads
NextToggle ==
  \/ \E k \in 1..Len(quoteReqs) : ServeQuote(k, StartupBodies)
  \/ \E k \in 1..Len(quoteReqs) : QuoteDone(k)
  \/ \E k \in 1..Len(taskReqs) : ServeTasks(k)
  \/ \E k \in 1..Len(taskReqs) : LoadTasksDone(k)
  \/ \E k \in 1..Len(notesReqs) : ServeNotes(k)
  \/ \E k \in 1..Len(notesReqs) : LoadNotesDone(k)
  \/ \E i \in 1..Len(rendered) : Toggle(i)
  \/ \E k \in 1..Len(taskReqs) : PatchDone(k)

SpecToggle == InitTasks /\ [][NextToggle]_vars

\* new-task submissions and their reloads
NextAdd ==
  \/ \E k \in 1..Len(quoteReqs) : ServeQuote(k, StartupBodies)
  \/ \E k \in 1..Len(quoteReqs) : QuoteDone(k)
  \/ \E k \in 1..Len(taskReqs) : ServeTasks(k)
  \/ \E k \in 1..Len(taskReqs) : LoadTasksDone(k)
  \/ \E k \in 1..Len(notesReqs) : ServeNotes(k)
  \/ \E k \in 1..Len(notesReqs) : LoadNotesDone(k)
  \/ \E v \in InputVals : TypeInput(v)
  \/ \E src \in {"click", "submit"} : AddTask(src)
  \/ \E k \in 1..Len(taskReqs) : PostDone(k)

SpecAdd == InitTasks /\ [][NextAdd]_vars

\* the quote widget, with the start-up sequence that follows its first
\* load, on a server that holds no tasks and empty notes
InitQuote == Init /\ serverTasks = <<>> /\ serverNotes = ""

NextQuote ==
  \/ \E k \in 1..Len(quoteReqs) : ServeQuote(k, QuoteBodies)
  \/ \E k \in 1..Len(quoteReqs) : QuoteDone(k)
  \/ \E v \in SelectVals : NewQuote(v)
  \/ \E k \in 1..Len(taskReqs) : ServeTasks(k)
  \/ \E k \in 1..Len(taskReqs) : LoadTasksDone(k)
  \/ \E k \in 1..Len(notesReqs) : ServeNotes(k)
  \/ \E k \in 1..Len(notesReqs) : LoadNotesDone(k)

SpecQuote == InitQuote /\ [][NextQuote]_vars

(* ============================== CLAIMS ================================ *)
NotesPage == Has("notes-text") /\ Has("save-notes-btn")

Dirty == ~saveDisabled /\ textarea # lastSavedNotes
Clean == saveDisabled /\ textarea = lastSavedNotes

\* the requests of a kind, issued by a handler, that are in flight
InFlight(kind, from) ==
  Cardinality({k \in DOMAIN taskReqs : taskReqs[k].kind = kind /\ taskReqs[k].from = from})

\* C1: in every reachable state the editor is Clean or Dirty: the save
\* button is enabled if and only if the textarea differs from lastSavedNotes.
C1_CleanOrDirty == NotesPage => (~saveDisabled <=> textarea # lastSavedNotes)

\* C2: right after a save whose PUT succeeded, lastSavedNotes is the value
\* the server echoed (the text sent when there is no echo), the textarea
\* holds that value and the save button is disabled, also when the echo
\* differs from the text sent.
C2_SaveSuccess ==
  [][\A k \in DOMAIN notesReqs :
       (SaveDone(k) /\ notesReqs[k].phase = "ok") =>
         LET r == notesReqs[k]
             echoed == IF r.data = NoField THEN r.sent ELSE r.data IN
           /\ lastSavedNotes' = echoed
           /\ textarea' = echoed
           /\ saveDisabled']_vars

\* a save succeeded with an echo that differs from the text sent
C2_Witness ==
  /\ last.op = "saveOk"
  /\ lastSavedNotes # last.arg
  /\ textarea = lastSavedNotes
  /\ saveDisabled

\* C8 as stated: a failed PUT leaves lastSavedNotes, the textarea and the
\* save button as they were, and the editor is Dirty with the button
\* enabled afterwards.
C8_Original ==
  [][\A k \in DOMAIN notesReqs :
       (SaveDone(k) /\ notesReqs[k].phase = "req") =>
         /\ UNCHANGED <<lastSavedNotes, textarea, saveDisabled>>
         /\ Dirty']_vars

\* C8 amended: a failed PUT leaves lastSavedNotes, the textarea and the save
\* button as they were when the failure arrived; the editor is Dirty
\* afterwards if it was Dirty then.
C8_SaveFailure ==
  [][\A k \in DOMAIN notesReqs :
       (SaveDone(k) /\ notesReqs[k].phase = "req") =>
         /\ UNCHANGED <<lastSavedNotes, textarea, saveDisabled>>
         /\ Dirty => Dirty']_vars

\* a save failed and the editor is still Dirty
C8_Witness == last.op = "saveFail" /\ Dirty

\* C9: a successful GET /notes sets the textarea and lastSavedNotes to the
\* fetched notes ("" when the field is absent) and disables the save
\* button; a failed one leaves all three untouched.
C9_LoadNotes ==
  [][\A k \in DOMAIN notesReqs :
       LoadNotesDone(k) =>
         LET r == notesReqs[k]
             fetched == IF r.data = NoField THEN "" ELSE r.data IN
           IF r.phase = "ok"
           THEN textarea' = fetched /\ lastSavedNotes' = fetched /\ saveDisabled'
           ELSE UNCHANGED <<textarea, lastSavedNotes, saveDisabled>>]_vars

\* the initial load succeeded with a response that has no notes field
C9_Witness ==
  /\ last = Step("loadNotesOk", NoField)
  /\ textarea = ""
  /\ lastSavedNotes = ""
  /\ saveDisabled
  /\ serverNotes # ""

\* C3: when a change handler has finished, every rendered checkbox shows
\* the server's finished value for its task as of the reload (the reload's
\* response, or what the server holds when the reload failed), whether the
\* PATCH succeeded or failed: no box keeps a clicked value the server does
\* not hold.
C3_ToggleShowsServerTruth ==
  [][\A k \in DOMAIN taskReqs :
       (LoadTasksDone(k) /\ taskReqs[k].from = "change") =>
         LET truth == IF taskReqs[k].phase = "ok" THEN taskReqs[k].data
                      ELSE serverTasks IN
           \A i \in DOMAIN rendered' : \A j \in DOMAIN truth :
             rendered'[i].id = truth[j].id =>
               (rendered'[i].checked <=> truth[j].finished = 1)]_vars

\* C4: a checkbox change issues one PATCH for the toggled row's id with
\* finished 1 if the box is now checked and 0 otherwise; the completion of
\* that PATCH, with either outcome, issues one GET /tasks, and no reload of
\* a change handler is issued at any other time.
C4_PatchThenReload ==
  [][/\ \A i \in DOMAIN rendered :
          Toggle(i) =>
            /\ Len(taskReqs') = Len(taskReqs) + 1
            /\ SubSeq(taskReqs', 1, Len(taskReqs)) = taskReqs
            /\ LET q == taskReqs'[Len(taskReqs')] IN
                 /\ q.kind = "PATCH" /\ q.phase = "req"
                 /\ q.id = rendered[i].id
                 /\ q.finished = (IF rendered'[i].checked THEN 1 ELSE 0)
     /\ \A k \in DOMAIN taskReqs :
          PatchDone(k) =>
            /\ InFlight("PATCH", "change")' = InFlight("PATCH", "change") - 1
            /\ InFlight("GET", "change")' = InFlight("GET", "change") + 1
            /\ taskReqs'[Len(taskReqs')].phase = "req"
     /\ InFlight("GET", "change")' > InFlight("GET", "change") =>
          \E k \in DOMAIN taskReqs : PatchDone(k)]_vars

\* a PATCH failed and the reload that follows it is in flight
C4_Witness ==
  /\ last.op = "patchFail"
  /\ InFlight("PATCH", "change") = 0
  /\ InFlight("GET", "change") = 1

\* C10: a loadTasks that fails, by a failed request or by a response that
\* is not a task array, leaves the rendered list as it was.
C10_FailedLoadKeepsList ==
  [][\A k \in DOMAIN taskReqs :
       (LoadTasksDone(k) /\ taskReqs[k].phase # "ok") => rendered' = rendered]_vars

IsBlank(s) == \A i \in DOMAIN s : s[i] \in {9, 10, 11, 12, 13, 32, 160}

\* C5: handleAddTask on an empty or whitespace-only input issues no
\* request and leaves the add button, the input and the rendered list as
\* they were.
C5_BlankInputIgnored ==
  [][\A src \in {"click", "submit"} :
       (AddTask(src) /\ IsBlank(inputEl)) =>
         UNCHANGED <<taskReqs, addDisabled, inputEl, rendered, serverTasks>>]_vars

\* handleAddTask returned on a whitespace-only input
C5_Witness ==
  /\ last.op = "addEmpty"
  /\ inputEl = <<32, 9, 160>>
  /\ taskReqs = <<>>
  /\ ~addDisabled

\* C6: when the POST of handleAddTask completes, with either outcome, the
\* add button is enabled and one GET /tasks is issued; the input is
\* cleared if the POST succeeded and left alone if it failed.
C6_AddCompletion ==
  [][\A k \in DOMAIN taskReqs :
       PostDone(k) =>
         /\ ~addDisabled'
         /\ InFlight("POST", "add")' = InFlight("POST", "add") - 1
         /\ InFlight("GET", "add")' = InFlight("GET", "add") + 1
         /\ taskReqs'[Len(taskReqs')].phase = "req"
         /\ IF taskReqs[k].phase = "ok" THEN inputEl' = <<>> ELSE inputEl' = inputEl]_vars

\* a POST failed: the text is still in the input, the button is enabled
\* and the reload is in flight
C6_Witness ==
  /\ last.op = "postFail"
  /\ inputEl # <<>>
  /\ ~addDisabled
  /\ InFlight("POST", "add") = 0
  /\ InFlight("GET", "add") = 1

\* C7: at most one POST /tasks of handleAddTask is in flight at any time.
C7_OnePostInFlight == InFlight("POST", "add") <= 1

QuotePage == Has("quote-text") /\ Has("quote-author")

\* C11: loadQuote never rejects: on any failure (failed request, malformed
\* response, missing quote element) it ends normally, with the fallback
\* message in the text element and the author element cleared.
C11_LoadQuoteNeverThrows ==
  [][\A k \in DOMAIN quoteReqs :
       (QuoteDone(k) /\ ~(quoteReqs[k].phase = "ok" /\ QuotePage)) =>
         /\ last'.op # "quoteRejected"
         /\ initPc' # "rejected"
         /\ Has("quote-text") => quoteTextEl' = Fallback
         /\ Has("quote-author") => quoteAuthorEl' = ""]_vars

\* C14: Part B is wired and its initial loads are started whatever the
\* outcome of the quote slice's initial load: once that load is over, the
\* task and notes listeners exist and init() has gone on to loadTasks.
C14_StartupIndependent ==
  (\A k \in DOMAIN quoteReqs : quoteReqs[k].from # "init") =>
    (PartBWired /\ initPc # "rejected")

\* C16: on a successful response the text element shows the quote field if
\* present, else the text field, else "", between double quotes, and the
\* author element shows the author field if present, else name, else "".
C16_QuoteDisplayed ==
  [][\A k \in DOMAIN quoteReqs :
       (QuoteDone(k) /\ quoteReqs[k].phase = "ok" /\ QuotePage) =>
         LET b == quoteReqs[k].body IN
           /\ quoteTextEl' = "\"" \o (IF b.quote # NoField THEN b.quote
                                      ELSE IF b.text # NoField THEN b.text
                                      ELSE "") \o "\""
           /\ quoteAuthorEl' = (IF b.author # NoField THEN b.author
                                ELSE IF b.name # NoField THEN b.name
                                ELSE "")]_vars

\* the response {text: "Be kind.", name: "Anon"} is on display
C16_Witness ==
  /\ last.op = "quoteOk"
  /\ quoteTextEl = "\"Be kind.\""
  /\ quoteAuthorEl = "Anon"

\* C17 as stated: with both quote and text missing the text element shows
\* the empty string, and with both author and name missing the author
\* element shows the empty string.
C17_Original ==
  [][\A k \in DOMAIN quoteReqs :
       (QuoteDone(k) /\ quoteReqs[k].phase = "ok" /\ QuotePage) =>
         LET b == quoteReqs[k].body IN
           /\ (b.quote = NoField /\ b.text = NoField) => quoteTextEl' = ""
           /\ (b.author = NoField /\ b.name = NoField) => quoteAuthorEl' = ""]_vars

\* C17 amended: with both quote and text missing the text element shows
\* two double-quote characters around nothing, and with both author and
\* name missing the author element shows the empty string; neither shows
\* the text of an absent value.
C17_MissingFieldsEmpty ==
  [][\A k \in DOMAIN quoteReqs :
       (QuoteDone(k) /\ quoteReqs[k].phase = "ok" /\ QuotePage) =>
         LET b == quoteReqs[k].body IN
           /\ (b.quote = NoField /\ b.text = NoField) => quoteTextEl' = "\"\""
           /\ (b.author = NoField /\ b.name = NoField) => quoteAuthorEl' = ""
           /\ quoteTextEl' # "\"" \o NoField \o "\""
           /\ quoteAuthorEl' # NoField]_vars

\* a response without any of the four fields is on display
C17_Witness ==
  /\ last.op = "quoteOk"
  /\ quoteTextEl = "\"\""
  /\ quoteAuthorEl = ""

\* C12 as stated: at most one request of the tasks slice is in flight at
\* every point.
C12_Original == Len(taskReqs) <= 1

\* C12 amended: the calls of one handler invocation run one after the
\* other: a user event or init puts one request in flight, the completion
\* of a PATCH replaces it by the reload, the completion of a reload leaves
\* one request fewer, and nothing else adds a request.
C12_SequentialPerHandler ==
  [][/\ Len(taskReqs') <= Len(taskReqs) + 1
     /\ \A i \in DOMAIN rendered : Toggle(i) => Len(taskReqs') = Len(taskReqs) + 1
     /\ \A k \in DOMAIN taskReqs :
          /\ PatchDone(k) => Len(taskReqs') = Len(taskReqs)
          /\ LoadTasksDone(k) => Len(taskReqs') = Len(taskReqs) - 1
     /\ Len(taskReqs') > Len(taskReqs) =>
          \/ \E i \in DOMAIN rendered : Toggle(i)
          \/ \E k \in DOMAIN quoteReqs : QuoteDone(k)]_vars

\* the PATCH of one toggle and the reload of another are in flight together
C12_Witness ==
  /\ Len(taskReqs) = 2
  /\ InFlight("PATCH", "change") = 1
  /\ InFlight("GET", "change") = 1

\* C13: when no notes request is in flight and a save has just succeeded,
\* lastSavedNotes and the textarea equal the notes the server holds.
C13_NotesNeverDiverge ==
  (NotesPage /\ last.op = "saveOk" /\ notesReqs = <<>>) =>
    (lastSavedNotes = serverNotes /\ textarea = serverNotes)

\* the checkboxes of a rendering are those of a task list
Shows(rows, tasks) ==
  /\ Len(rows) = Len(tasks)
  /\ \A i \in DOMAIN tasks :
       /\ rows[i].id = tasks[i].id
       /\ rows[i].checked <=> tasks[i].finished = 1

\* C15: a successful GET /tasks is rendered when it completes, also when
\* the server's list has changed since it was answered or when another
\* request is still pending: no response is superseded.
C15_LastArrivalWins ==
  [][\A k \in DOMAIN taskReqs :
       (LoadTasksDone(k) /\ taskReqs[k].phase = "ok"
          /\ (taskReqs[k].data # serverTasks \/ Len(taskReqs) > 1)) =>
         /\ Shows(rendered', taskReqs[k].data)
         /\ taskReqs[k].data # serverTasks => ~Shows(rendered', serverTasks)]_vars

\* after toggles, with every request completed, the list on display is not
\* the server's
C15_Witness ==
  /\ last = Step("loadTasksOk", "change")
  /\ taskReqs = <<>>
  /\ rendered # <<>>
  /\ ~Shows(rendered, serverTasks)

\* C18: after a successful render the list holds one row per task of the
\* response, in the response's order, with the task's label and a checkbox
\* checked exactly when finished is 1; rows of earlier renders are gone.
C18_RenderReplaces ==
  [][\A k \in DOMAIN taskReqs :
       (LoadTasksDone(k) /\ taskReqs[k].phase = "ok") =>
         LET tasks == taskReqs[k].data IN
           /\ DOMAIN rendered' = DOMAIN tasks
           /\ \A i \in DOMAIN tasks :
                rendered'[i] = [id |-> tasks[i].id, task |-> tasks[i].task,
                                checked |-> (tasks[i].finished = 1)]]_vars

\* a reload has rendered two rows over an earlier rendering, in the
\* server's order
C18_Witness ==
  /\ last.op = "loadTasksOk"
  /\ last.arg # "init"
  /\ Len(rendered) = 2
  /\ rendered[1].id = 1
  /\ rendered[2].id = 2

\* C19: a save click leaves the save button enabled while its PUT is in
\* flight, and a successful save overwrites the textarea with the echo of
\* that PUT and leaves the editor Clean, whatever was typed meanwhile.
C19_EditsDuringSaveLost ==
  [][/\ ClickSave => ~saveDisabled'
     /\ \A k \in DOMAIN notesReqs :
          (SaveDone(k) /\ notesReqs[k].phase = "ok" /\ textarea # notesReqs[k].sent) =>
            LET r == notesReqs[k] IN
              /\ textarea' = (IF r.data = NoField THEN r.sent ELSE r.data)
              /\ Clean']_vars

\* text was typed while a PUT was in flight; the PUT has been answered
\* with an echo that is not the text now in the textarea
C19_Witness ==
  /\ last.op = "input"
  /\ ~saveDisabled
  /\ \E k \in DOMAIN notesReqs :
       /\ notesReqs[k].kind = "PUT"
       /\ notesReqs[k].phase = "ok"
       /\ textarea # notesReqs[k].sent
       /\ textarea # putNotes(notesReqs[k].sent, notesReqs[k].data)

====
